---- MODULE Spec2Model ----
(***************************************************************************)
(* R2PD: resource resolution (nearest-site allocation) and the local cache *)
(* / download orchestration.                                               *)
(*                                                                         *)
(* Six specifications share this module:                                   *)
(*   SpecAlloc  the generation allocation loop, queue.nearest_power_nodes  *)
(*   SpecAllocOld  the same loop in the older resource.DataStore           *)
(*              .get_power_nodes, which reads the site rows by position    *)
(*   SpecMet    the weather allocation, queue.nearest_met_nodes and the    *)
(*              older resource.DataStore.get_met_nodes                     *)
(*   SpecCache  Peregrine.download_resource_data, cache_resource and the   *)
(*              InternalDataStore metadata                                 *)
(*   SpecStore  InternalDataStore.cache_data / cache_site called directly  *)
(*   SpecResolve  queue.get_resource_data: the downloads of SpecCache with *)
(*              the files in sub directories, get_resource per site, and   *)
(*              a new InternalDataStore opened over the same directory     *)
(*                                                                         *)
(* Numbers.  Capacities are integers (the allocator's floats are not       *)
(* modelled).  A fraction cap / capacity is kept as the pair               *)
(* <<numerator, denominator>>.  Distances are compared by their squares:   *)
(* cKDTree returns the Euclidean distance on (latitude, longitude), and    *)
(* the square is monotone in it.  File sizes and the maximum cache size    *)
(* are whole MB; the size check of download_resource_data computes with    *)
(* them in GB as the code does, in binary64 floating point.                *)
(***************************************************************************)
EXTENDS Integers, Sequences, FiniteSets, TLC

(***************************************************************************)
(* Bounds of the model.                                                    *)
(***************************************************************************)
NumSites == 2
NumNodes == 2
MaxCoord == 1
MaxCap == 2
MaxDemand == 3
MaxSiteId == 2
MaxEntries == 3

None == "None"

\* the result of a call: not called yet, raised, or the column by node id
NoResult == [called |-> FALSE, raised |-> FALSE, site_id |-> <<>>]
Raised == [called |-> TRUE, raised |-> TRUE, site_id |-> <<>>]
Result(f) == [called |-> TRUE, raised |-> FALSE, site_id |-> f]

VARIABLES
    catalog,      \* resource_meta: rows [id, lat, lon, capacity], sorted by id
    nodeList,     \* node_data: rows [id, lat, lon, capacity]
    r_nodes,      \* r_nodes['r_cap'], by catalog position
    nodes,        \* nodes[['r_cap','site_id','site_fracs']], by node position
    r_index,      \* r_left.index, as catalog positions
    n_index,      \* nodes_left.index, as node positions
    node_pairs,   \* the (i, n) pairs the for loop still has to apply
    pc,           \* position in nearest_power_nodes
    iters,        \* how many passes of the while loop have begun
    impl,         \* "queue": queue.nearest_power_nodes;
                  \* "resource": resource.DataStore.get_power_nodes
    tieOrder,     \* which of several equidistant sites a k-d tree query answers
    met_nodes,    \* nodes['site_id'] of the last nearest_met_nodes call, by node id
    met_prev,     \* the same of the call before it
    old_nodes,    \* nodes['id'] of the last get_met_nodes call, by node id
    old_prev,     \* the same of the call before it
    size_cfg,     \* InternalDataStore._size in MB, NoSize for None
    disk,         \* the .hdf5 files in the local cache directories
    dirs,         \* the sub directories made in the local cache
    cache_meta,   \* wind_cache.csv and solar_cache.csv: rows [site_id, flags]
    lock,         \* per dataset, the task holding {dataset}_lock, 0 if free
    dpc,          \* position in download_resource_data
    req,          \* arguments and local values of the download_resource_data call
    files,        \* the list files built by download_resource_data
    tasks,        \* one cache_resource call per entry of files
    last_call,    \* the last call made on the InternalDataStore
    store_calls,  \* how many calls were made on the InternalDataStore
    entry,        \* "method": Peregrine.download_resource_data is called;
                  \* "resolve": queue.get_resource_data and the functions of queue.py
    sub,          \* the files of disk that lie in a sub directory, not in the root
    gpc,          \* position in get_resource_data
    meta0,        \* the index files when download_resource_data was called
    opened        \* how many times an InternalDataStore was opened over the cache

allocVars == <<catalog, nodeList, r_nodes, nodes, r_index, n_index, node_pairs, pc,
               iters, impl>>
metVars == <<tieOrder, met_nodes, met_prev, old_nodes, old_prev>>
cacheVars == <<size_cfg, disk, dirs, cache_meta, lock, dpc, req, files, tasks>>
storeVars == <<last_call, store_calls>>
resolveVars == <<entry, sub, gpc, meta0, opened>>

vars == <<allocVars, metVars, cacheVars, storeVars, resolveVars>>

NoCall == [op |-> "none", dataset |-> "", file |-> <<>>, repeat |-> FALSE]

\* the cache variables in the specifications that do not use the cache
CacheUnused ==
    /\ size_cfg = -1
    /\ disk = {}
    /\ dirs = {}
    /\ cache_meta = <<>>
    /\ lock = <<>>
    /\ dpc = "idle"
    /\ req = <<>>
    /\ files = <<>>
    /\ tasks = <<>>
    /\ last_call = NoCall
    /\ store_calls = 0
    /\ entry = "method"
    /\ sub = {}
    /\ gpc = "idle"
    /\ meta0 = <<>>
    /\ opened = 0

(***************************************************************************)
(* Helpers on sequences.                                                   *)
(***************************************************************************)
RECURSIVE SumSeq(_)
SumSeq(s) == IF s = <<>> THEN 0 ELSE Head(s) + SumSeq(Tail(s))

RECURSIVE Ascending(_)
\* the members of a finite set of integers as an ascending sequence
Ascending(S) ==
    IF S = {} THEN <<>>
    ELSE LET m == CHOOSE x \in S : \A y \in S : x <= y
         IN  <<m>> \o Ascending(S \ {m})

Range(s) == {s[i] : i \in DOMAIN s}

(***************************************************************************)
(* Inputs.                                                                 *)
(***************************************************************************)
Coords == 0..MaxCoord

SiteRows == [id : 0..MaxSiteId, lat : Coords, lon : Coords, capacity : 1..MaxCap]
NodeRows == [id : 1..NumNodes, lat : Coords, lon : Coords, capacity : 0..MaxDemand]

\* ExternalDataStore.__init__ sorts the site meta by site_id; ids are unique
Catalogs ==
    {c \in UNION {[1..n -> SiteRows] : n \in 1..NumSites} :
        \A i \in 1..Len(c) - 1 : c[i].id < c[i + 1].id}

\* node_data has one row per node, indexed by node_id
NodeLists ==
    {l \in UNION {[1..n -> NodeRows] : n \in 1..NumNodes} :
        \A i, j \in 1..Len(l) : i # j => l[i].id # l[j].id}

\* generator nodes: the node ids play no part in the allocation, they are 1..n
GenNodeLists == {l \in NodeLists : \A i \in 1..Len(l) : l[i].id = i}

\* squared planar distance between two rows
Dist2(a, b) == (a.lat - b.lat) * (a.lat - b.lat) + (a.lon - b.lon) * (a.lon - b.lon)

(***************************************************************************)
(* nearest_power_nodes                                                     *)
(***************************************************************************)
InitNodes(nl) == [p \in 1..Len(nl) |->
                    [r_cap |-> nl[p].capacity, site_id |-> <<>>, site_fracs |-> <<>>]]

InitRNodes(cat) == [p \in 1..Len(cat) |-> cat[p].capacity]

\* every site row, with capacity left or not
RLeftAll(rn) == Ascending(DOMAIN rn)

\* r_nodes[r_nodes['r_cap'] > 0].index
RLeft(rn) == Ascending({p \in DOMAIN rn : rn[p] > 0})
\* every node row, filled or not
NodesLeftAll(ns) == Ascending(DOMAIN ns)

\* nodes[nodes['r_cap'] > 0].index
NodesLeft(ns) == Ascending({p \in DOMAIN ns : ns[p].r_cap > 0})

\* the positions in the tree (1..Len(ri)) at minimum distance from node row nd
NearestSet(cat, ri, nd) ==
    {i \in 1..Len(ri) :
        \A j \in 1..Len(ri) : Dist2(cat[ri[i]], nd) <= Dist2(cat[ri[j]], nd)}

\* tree.query(node_lat_lon, k=1): one tree position per node left.  Among
\* equidistant sites cKDTree's answer is fixed by the tree but not specified,
\* so every choice is allowed; equal query points get equal answers.  An
\* empty tree answers position n (one past the end) for every point.
TreeQueries(cat, nl, ri, ni) ==
    IF Len(ri) = 0 THEN {[k \in 1..Len(ni) |-> 1]}
    ELSE {q \in [1..Len(ni) -> 1..Len(ri)] :
            /\ \A k \in 1..Len(ni) : q[k] \in NearestSet(cat, ri, nl[ni[k]])
            /\ \A k, m \in 1..Len(ni) :
                 (nl[ni[k]].lat = nl[ni[m]].lat /\ nl[ni[k]].lon = nl[ni[m]].lon)
                    => q[k] = q[m]}

\* distance the query reports for node k: infinite (-1 here) on an empty tree
QueryDist(cat, nl, ri, ni, q, k) ==
    IF Len(ri) = 0 THEN -1 ELSE Dist2(cat[ri[q[k]]], nl[ni[k]])

\* groupby('pos')['dist'].idxmin(): for tree position i, the first node row
\* with the smallest distance among the rows that chose i
IdxMin(cat, nl, ri, ni, q, i) ==
    CHOOSE k \in 1..Len(ni) :
        /\ q[k] = i
        /\ \A m \in 1..Len(ni) :
             q[m] = i =>
               \/ QueryDist(cat, nl, ri, ni, q, k) < QueryDist(cat, nl, ri, ni, q, m)
               \/ (QueryDist(cat, nl, ri, ni, q, k) = QueryDist(cat, nl, ri, ni, q, m)
                   /\ k <= m)

RECURSIVE GroupPairs(_, _, _, _, _, _)
\* the (i, n) pairs of node_pairs.iteritems(), groups in ascending pos
GroupPairs(cat, nl, ri, ni, q, i) ==
    IF i > (IF Len(ri) = 0 THEN 1 ELSE Len(ri)) THEN <<>>
    ELSE IF \E k \in 1..Len(ni) : q[k] = i
         THEN <<<<i, IdxMin(cat, nl, ri, ni, q, i)>>>>
                 \o GroupPairs(cat, nl, ri, ni, q, i + 1)
         ELSE GroupPairs(cat, nl, ri, ni, q, i + 1)

\* lines 82-89 with the branches exchanged
ApplyResourceSwapped(capacity, cap, node_r_cap) ==
    IF node_r_cap > cap
    THEN [frac |-> <<node_r_cap, capacity>>, resource_r_cap |-> cap - node_r_cap,
          node_r_cap |-> 0]
    ELSE [frac |-> <<cap, capacity>>, resource_r_cap |-> 0,
          node_r_cap |-> node_r_cap - cap]

\* lines 82-89: the fraction of the site given to the node, and both remainders
ApplyResource(capacity, cap, node_r_cap) ==
    IF node_r_cap > cap
    THEN [frac |-> <<cap, capacity>>, resource_r_cap |-> 0,
          node_r_cap |-> node_r_cap - cap]
    ELSE [frac |-> <<node_r_cap, capacity>>, resource_r_cap |-> cap - node_r_cap,
          node_r_cap |-> 0]

\* the new entry put in front of the list
AddSiteFront(list, x) == <<x>> \o list

\* lines 91-96: node['site_id'] = [file_id] for a node without sites yet,
\* node['site_id'] += [file_id] otherwise; the same for site_fracs
AddSite(list, x) == Append(list, x)

\* np.sum(nodes['r_cap'] > 0) == 0
AllFilled(ns) == \A p \in 1..Len(ns) : ~(ns[p].r_cap > 0)

InitAlloc ==
    /\ catalog \in Catalogs
    /\ nodeList \in GenNodeLists
    /\ r_nodes = InitRNodes(catalog)
    /\ nodes = InitNodes(nodeList)
    /\ r_index = <<>>
    /\ n_index = <<>>
    /\ node_pairs = <<>>
    /\ pc = "query"
    /\ iters = 0
    /\ impl = "queue"
    /\ tieOrder = <<>>
    /\ met_nodes = NoResult
    /\ met_prev = NoResult
    /\ old_nodes = NoResult
    /\ old_prev = NoResult
    /\ CacheUnused

\* lines 54-70: live sites, unfilled nodes, the tree query and the grouping
Query ==
    /\ pc = "query"
    /\ LET ri == RLeft(r_nodes)
           ni == NodesLeft(nodes)
       IN  /\ r_index' = ri
           /\ n_index' = ni
           /\ \E q \in TreeQueries(catalog, nodeList, ri, ni) :
                node_pairs' = IF Len(ni) = 0 THEN <<>>
                              ELSE GroupPairs(catalog, nodeList, ri, ni, q, 1)
    /\ pc' = "apply"
    /\ iters' = iters + 1
    /\ UNCHANGED <<catalog, nodeList, r_nodes, nodes, impl, metVars, cacheVars, storeVars, resolveVars>>

\* line 76, the row of r_nodes read and written for the index label r_i (here
\* the catalog position of the site with that label): queue.py reads
\* r_nodes.loc[r_i], the row with the label; resource/datastore.py line 76
\* reads r_nodes.iloc[r_i], the row at position r_i counted from 0
SiteRow(im, cat, r_i) == IF im = "resource" THEN cat[r_i].id + 1 ELSE r_i

\* lines 73-99: one pass of the for loop
Apply ==
    /\ pc = "apply"
    /\ node_pairs # <<>>
    /\ LET i == Head(node_pairs)[1]
           n == Head(node_pairs)[2]
       IN  /\ i <= Len(r_index)
           /\ SiteRow(impl, catalog, r_index[i]) <= Len(catalog)
           /\ LET r_i == SiteRow(impl, catalog, r_index[i])
                  n_i == n_index[n]
                  res == ApplyResource(catalog[r_i].capacity, r_nodes[r_i],
                                       nodes[n_i].r_cap)
              IN  /\ impl = "resource" => Len(nodes[n_i].site_id) < MaxEntries
                  /\ r_nodes' = [r_nodes EXCEPT ![r_i] = res.resource_r_cap]
                  /\ nodes' = [nodes EXCEPT ![n_i] =
                                 [r_cap |-> res.node_r_cap,
                                  site_id |-> AddSite(@.site_id, catalog[r_i].id),
                                  site_fracs |-> AddSite(@.site_fracs, res.frac)]]
    /\ node_pairs' = Tail(node_pairs)
    /\ UNCHANGED <<catalog, nodeList, r_index, n_index, pc, iters, impl, metVars, cacheVars, storeVars, resolveVars>>

\* line 74: r_index[i] with i out of bounds raises IndexError; so does
\* r_nodes.iloc[r_i] of resource/datastore.py with r_i past the last row
ApplyRaise ==
    /\ pc = "apply"
    /\ node_pairs # <<>>
    /\ IF Head(node_pairs)[1] > Len(r_index) THEN TRUE
       ELSE SiteRow(impl, catalog, r_index[Head(node_pairs)[1]]) > Len(catalog)
    /\ pc' = "raised"
    /\ UNCHANGED <<catalog, nodeList, r_nodes, nodes, r_index, n_index, node_pairs, iters, impl, metVars, cacheVars, storeVars, resolveVars>>

\* lines 103-104: leave the loop once every node is filled
LoopTest ==
    /\ pc = "apply"
    /\ node_pairs = <<>>
    /\ pc' = IF AllFilled(nodes) THEN "done" ELSE "query"
    /\ UNCHANGED <<catalog, nodeList, r_nodes, nodes, r_index, n_index, node_pairs, iters, impl, metVars, cacheVars, storeVars, resolveVars>>

NextAlloc == Query \/ Apply \/ ApplyRaise \/ LoopTest

SpecAlloc == InitAlloc /\ [][NextAlloc]_vars

\* DataStore.get_power_nodes of the older resource package: the same loop
\* with the site rows read by position
InitAllocOld ==
    /\ catalog \in Catalogs
    /\ nodeList \in GenNodeLists
    /\ r_nodes = InitRNodes(catalog)
    /\ nodes = InitNodes(nodeList)
    /\ r_index = <<>>
    /\ n_index = <<>>
    /\ node_pairs = <<>>
    /\ pc = "query"
    /\ iters = 0
    /\ impl = "resource"
    /\ tieOrder = <<>>
    /\ met_nodes = NoResult
    /\ met_prev = NoResult
    /\ old_nodes = NoResult
    /\ old_prev = NoResult
    /\ CacheUnused

SpecAllocOld == InitAllocOld /\ [][NextAlloc]_vars

(***************************************************************************)
(* Properties of nearest_power_nodes                                       *)
(***************************************************************************)
TotalSiteCapacity == SumSeq([p \in 1..Len(catalog) |-> catalog[p].capacity])
TotalDemand == SumSeq([p \in 1..Len(nodeList) |-> nodeList[p].capacity])

\* rated capacity of the catalog site with this id
RatedCapacity(id) == catalog[CHOOSE p \in 1..Len(catalog) : catalog[p].id = id].capacity

\* fraction x site rated capacity, summed over one node's allocation
AllocatedAmount(node) ==
    SumSeq([k \in 1..Len(node.site_id) |->
              (node.site_fracs[k][1] * RatedCapacity(node.site_id[k]))
                 \div node.site_fracs[k][2]])

AllocatedTotal == SumSeq([p \in 1..Len(nodes) |-> AllocatedAmount(nodes[p])])

Returned == pc = "done"
Ended == pc \in {"done", "raised"}

\* C1: when the total site capacity covers the total demand the allocation
\* does not raise, and on return every node has remaining 0 and the amounts
\* allocated to it (fraction x rated capacity) add up to its required capacity.
C1_FullSatisfaction ==
    TotalSiteCapacity >= TotalDemand =>
        /\ pc # "raised"
        /\ Returned =>
             \A p \in 1..Len(nodes) :
                /\ nodes[p].r_cap = 0
                /\ AllocatedAmount(nodes[p]) = nodeList[p].capacity

\* a return with enough capacity where one node was filled from two sites
C1_Witness ==
    /\ Returned
    /\ TotalSiteCapacity >= TotalDemand
    /\ \E p \in 1..Len(nodes) : Len(nodes[p].site_id) = 2

\* C2: when the total site capacity is below the total demand the allocator
\* still returns normally (it never raises).
C2_ShortageReturnsNormally ==
    TotalSiteCapacity < TotalDemand => pc # "raised"

\* C3: when the total site capacity is below the total demand the loop ends
\* with a result in which the allocated amounts add up to the total site
\* capacity and a node has remaining > 0 only if every site has remaining 0.
C3_ShortageResult ==
    (TotalSiteCapacity < TotalDemand /\ Ended) =>
        /\ Returned
        /\ AllocatedTotal = TotalSiteCapacity
        /\ (\E p \in 1..Len(nodes) : nodes[p].r_cap > 0)
              => \A r \in 1..Len(r_nodes) : r_nodes[r] = 0

\* C17: at every point of the allocation loop and in the result, every
\* fraction in every node's allocation is greater than 0 and at most 1, and
\* every node has one fraction per site.
C17_FractionInRange ==
    \A p \in 1..Len(nodes) :
        /\ Len(nodes[p].site_fracs) = Len(nodes[p].site_id)
        /\ \A k \in 1..Len(nodes[p].site_fracs) :
              /\ nodes[p].site_fracs[k][2] > 0
              /\ 0 < nodes[p].site_fracs[k][1]
              /\ nodes[p].site_fracs[k][1] <= nodes[p].site_fracs[k][2]

\* a result with a site given whole (fraction 1) and a site given in part
C17_Witness ==
    /\ Returned
    /\ \E p, r \in 1..Len(nodes) :
         /\ \E k \in 1..Len(nodes[p].site_fracs) :
               nodes[p].site_fracs[k][1] = nodes[p].site_fracs[k][2]
         /\ \E k \in 1..Len(nodes[r].site_fracs) :
               nodes[r].site_fracs[k][1] < nodes[r].site_fracs[k][2]

\* how many nodes and sites have remaining capacity 0
Zeros ==
    Cardinality({p \in 1..Len(nodes) : nodes[p].r_cap = 0})
       + Cardinality({r \in 1..Len(r_nodes) : r_nodes[r] = 0})

\* the loop has begun at most (#nodes + #sites) passes
IterationBound == iters <= Len(nodeList) + Len(catalog)

\* a pass that begins with an unsatisfied node has a pair to apply
PassHasPair == (pc = "query" /\ ~AllFilled(nodes)) => node_pairs' # <<>>

\* the next pair of the pass is applied and brings the remaining capacity of
\* its node or of its site to 0
PairExhausts == (pc = "apply" /\ node_pairs # <<>>) => (pc' = "apply" /\ Zeros' > Zeros)

\* C21: every pass of the loop that begins with an unsatisfied node brings
\* the remaining capacity of at least one node or site to 0 (it has a pair,
\* and every pair is applied and exhausts its node or its site), and the
\* loop begins at most (#nodes + #sites) passes.
C21_ProgressAndBound ==
    /\ []IterationBound
    /\ [][PassHasPair /\ PairExhausts]_vars

\* C21 for the passes that apply their pairs: each applied pair exhausts a
\* node or a site, and the bound on the passes
C21_AppliedPairExhausts ==
    /\ []IterationBound
    /\ [][PassHasPair /\ (pc' = "apply" => PairExhausts)]_vars

\* the pairs of one query, over live sites ri and unsatisfied nodes ni: every
\* pair joins a node with one of its nearest live sites; a node whose only
\* nearest live site is the site of a pair, and that is not the node of the
\* pair, is not closer to the site and is in no pair; no site and no node is
\* in two pairs; every unsatisfied node has a nearest live site in a pair
ClosestWins(ri, ni, pairs) ==
    LET Near(k) == NearestSet(catalog, ri, nodeList[ni[k]])
        Far(i, k) == Dist2(catalog[ri[i]], nodeList[ni[k]])
    IN  /\ \A j \in 1..Len(pairs) :
              LET i == pairs[j][1]
                  n == pairs[j][2]
              IN  /\ i \in Near(n)
                  /\ \A m \in 1..Len(ni) :
                        (m # n /\ Near(m) = {i}) =>
                            /\ Far(i, m) >= Far(i, n)
                            /\ \A h \in 1..Len(pairs) : pairs[h][2] # m
        /\ \A j, h \in 1..Len(pairs) :
              j # h => (pairs[j][1] # pairs[h][1] /\ pairs[j][2] # pairs[h][2])
        /\ \A m \in 1..Len(ni) : \E j \in 1..Len(pairs) : pairs[j][1] \in Near(m)

\* a query looks at the sites with capacity left and the unsatisfied nodes,
\* and where a site is left its pairs are those of ClosestWins
QueryContention ==
    (pc = "query" /\ pc' = "apply") =>
        /\ r_index' = RLeft(r_nodes)
        /\ n_index' = NodesLeft(nodes)
        /\ Len(r_index') > 0 => ClosestWins(r_index', n_index', node_pairs')

\* applying a pair gives its node the site of the pair, takes the capacity
\* from that site, and leaves every other node and site as they are
PairServed ==
    (pc = "apply" /\ node_pairs # <<>> /\ pc' = "apply") =>
        LET r_i == r_index[Head(node_pairs)[1]]
            n_i == n_index[Head(node_pairs)[2]]
        IN  /\ nodes'[n_i].site_id = Append(nodes[n_i].site_id, catalog[r_i].id)
            /\ nodes'[n_i].r_cap < nodes[n_i].r_cap
            /\ r_nodes[r_i] - r_nodes'[r_i] = nodes[n_i].r_cap - nodes'[n_i].r_cap
            /\ \A p \in 1..Len(nodes) : p # n_i => nodes'[p] = nodes[p]
            /\ \A r \in 1..Len(r_nodes) : r # r_i => r_nodes'[r] = r_nodes[r]

\* C22: in one pass, of the unsatisfied nodes with the same nearest live site
\* only one at the smallest distance to it is paired with it and receives
\* capacity from it, the others receive nothing in that pass; the next pass
\* looks again at the sites that have capacity left, so a node that lost is
\* served from the same site if it is still live and from its next nearest
\* live site otherwise.
C22_ClosestNodeWins == [][QueryContention /\ PairServed]_vars

\* C22 for the pairing alone
C22_ClosestNodePaired == [][QueryContention]_vars

\* a query with two unsatisfied nodes that have the same single nearest live
\* site, at different distances, and a second live site
C22_Witness ==
    /\ pc = "apply"
    /\ Len(n_index) = 2
    /\ Len(r_index) = 2
    /\ Len(node_pairs) = 1
    /\ \E i \in 1..2 :
         /\ NearestSet(catalog, r_index, nodeList[n_index[1]]) = {i}
         /\ NearestSet(catalog, r_index, nodeList[n_index[2]]) = {i}
         /\ Dist2(catalog[r_index[i]], nodeList[n_index[1]])
               # Dist2(catalog[r_index[i]], nodeList[n_index[2]])

Min(a, b) == IF a < b THEN a ELSE b

\* applying a pair moves min(node remaining, site remaining) and appends the
\* site and the amount over the site's rated capacity
MinTransferred ==
    (pc = "apply" /\ node_pairs # <<>> /\ pc' = "apply") =>
        LET r_i == r_index[Head(node_pairs)[1]]
            n_i == n_index[Head(node_pairs)[2]]
            amount == Min(nodes[n_i].r_cap, r_nodes[r_i])
        IN  /\ amount > 0
            /\ nodes'[n_i] =
                  [r_cap |-> nodes[n_i].r_cap - amount,
                   site_id |-> Append(nodes[n_i].site_id, catalog[r_i].id),
                   site_fracs |-> Append(nodes[n_i].site_fracs,
                                         <<amount, catalog[r_i].capacity>>)]
            /\ r_nodes' = [r_nodes EXCEPT ![r_i] = r_nodes[r_i] - amount]

\* the example in units of 5 MW: sites A (id 0, capacity 10 MW, at (0,0)) and
\* B (id 1, capacity 10 MW, at (1,1)), node N1 (15 MW, at (0,0))
ExampleInput ==
    /\ catalog = <<[id |-> 0, lat |-> 0, lon |-> 0, capacity |-> 2],
                   [id |-> 1, lat |-> 1, lon |-> 1, capacity |-> 2]>>
    /\ nodeList = <<[id |-> 1, lat |-> 0, lon |-> 0, capacity |-> 3]>>

\* the result [(A, 1.0), (B, 0.5)]
ExampleResult ==
    (ExampleInput /\ Ended) =>
        /\ Returned
        /\ nodes[1].site_id = <<0, 1>>
        /\ nodes[1].site_fracs = <<<<2, 2>>, <<1, 2>>>>

\* C23: every applied pair transfers min(node remaining, site remaining),
\* appends (site id, amount / site rated capacity) to the node's allocation
\* and lowers both remainders by that amount; sites A (10) at (0,0), B (10)
\* at (1,1) and node N1 (15) at (0,0) give [(A, 1.0), (B, 0.5)].
C23_MinTransferred ==
    /\ []ExampleResult
    /\ [][MinTransferred]_vars

\* the allocation of the example has returned
C23_Witness == ExampleInput /\ Returned /\ Len(nodes[1].site_id) = 2

\* for every site the remaining capacity and the amounts allocated from it
\* add up to its rated capacity
AllocatedFrom(r) ==
    SumSeq([p \in 1..Len(nodes) |->
              SumSeq([k \in 1..Len(nodes[p].site_id) |->
                        IF nodes[p].site_id[k] = catalog[r].id
                        THEN (nodes[p].site_fracs[k][1] * catalog[r].capacity)
                                \div nodes[p].site_fracs[k][2]
                        ELSE 0])])

\* C27: in every state of the allocation loop, for each site remaining +
\* the amounts allocated from it = rated capacity and remaining >= 0, and
\* for each node remaining + the amounts allocated to it = required capacity
\* and remaining >= 0.
C27_Conservation ==
    /\ \A r \in 1..Len(r_nodes) :
          /\ r_nodes[r] >= 0
          /\ r_nodes[r] + AllocatedFrom(r) = catalog[r].capacity
    /\ \A p \in 1..Len(nodes) :
          /\ nodes[p].r_cap >= 0
          /\ nodes[p].r_cap + AllocatedAmount(nodes[p]) = nodeList[p].capacity

\* a state inside the loop where one site was shared by two nodes and
\* another site still has all its capacity
C27_Witness ==
    /\ pc = "query"
    /\ \E r \in 1..Len(r_nodes) :
         /\ \A p \in 1..Len(nodes) : catalog[r].id \in Range(nodes[p].site_id)
         /\ Len(nodes) = 2
    /\ \E r \in 1..Len(r_nodes) : r_nodes[r] = catalog[r].capacity

\* planar distance (squared) from node row p to the site with this id
SiteDist(p, id) ==
    Dist2(catalog[CHOOSE r \in 1..Len(catalog) : catalog[r].id = id], nodeList[p])

\* C28: within one node's allocation no site id appears twice, and the sites
\* appear in non-decreasing distance from the node.
C28_DistinctNonDecreasing ==
    \A p \in 1..Len(nodes) :
        \A k, m \in 1..Len(nodes[p].site_id) :
            k < m =>
                /\ nodes[p].site_id[k] # nodes[p].site_id[m]
                /\ SiteDist(p, nodes[p].site_id[k]) <= SiteDist(p, nodes[p].site_id[m])

\* a result where a node has two sites at different distances
C28_Witness ==
    /\ Returned
    /\ \E p \in 1..Len(nodes) :
         /\ Len(nodes[p].site_id) = 2
         /\ SiteDist(p, nodes[p].site_id[1]) < SiteDist(p, nodes[p].site_id[2])

\* the node rows with a required capacity above 0, in the order of the list
Kept == Ascending({p \in 1..Len(nodeList) : nodeList[p].capacity > 0})
\* a list of per-node rows without the rows of the nodes of capacity 0
Without(rows) == [k \in 1..Len(Kept) |-> rows[Kept[k]]]

\* the pairs a query computes, each as <<site row, node row>>
PairedRows(ri, ni, pairs) ==
    [j \in 1..Len(pairs) |->
        <<IF pairs[j][1] <= Len(ri) THEN ri[pairs[j][1]] ELSE 0, ni[pairs[j][2]]>>]

\* a query step pairs the nodes as a query on the list without the nodes of
\* capacity 0 can pair them
SameQueryWithout ==
    (pc = "query" /\ pc' = "apply") =>
        LET nl2 == Without(nodeList)
            ri == RLeft(r_nodes)
            ni2 == NodesLeft(Without(nodes))
        IN  \E q2 \in TreeQueries(catalog, nl2, ri, ni2) :
               LET pairs2 == IF Len(ni2) = 0 THEN <<>>
                             ELSE GroupPairs(catalog, nl2, ri, ni2, q2, 1)
                   rows2 == PairedRows(ri, ni2, pairs2)
               IN  PairedRows(r_index', n_index', node_pairs')
                      = [j \in 1..Len(rows2) |-> <<rows2[j][1], Kept[rows2[j][2]]>>]

\* a step that takes capacity from a site gives it to one node of capacity
\* above 0, and no step changes the row of a node of capacity 0
SiteCapacityToKept ==
    /\ \A p \in 1..Len(nodes) : nodeList[p].capacity = 0 => nodes'[p] = nodes[p]
    /\ r_nodes' # r_nodes =>
         \E p \in Range(Kept) :
            /\ \A r \in 1..Len(nodes) : r # p => nodes'[r] = nodes[r]
            /\ SumSeq(r_nodes) - SumSeq(r_nodes') = nodes[p].r_cap - nodes'[p].r_cap

\* a node of capacity 0 has no site, no fraction and nothing remaining, and
\* is not among the nodes the query looks at or pairs
ZeroNodesEmpty ==
    \A p \in 1..Len(nodes) :
        nodeList[p].capacity = 0 =>
            /\ nodes[p] = [r_cap |-> 0, site_id |-> <<>>, site_fracs |-> <<>>]
            /\ p \notin Range(n_index)

\* C18: a node with required capacity 0 keeps an empty allocation: it is
\* never among the nodes paired with a site, no capacity of a site is taken
\* for it, and every query pairs the other nodes as it would without it.
C18_ZeroCapacityNoOp ==
    /\ []ZeroNodesEmpty
    /\ [][SiteCapacityToKept /\ SameQueryWithout]_vars

\* a result with a node of capacity 0 listed before a node filled by two sites
C18_Witness ==
    /\ Returned
    /\ Len(nodeList) = 2
    /\ nodeList[1].capacity = 0
    /\ Len(nodes[2].site_id) = 2

\* s is t or a beginning of t
IsPrefix(s, t) == Len(s) <= Len(t) /\ \A k \in 1..Len(s) : s[k] = t[k]

\* C19: a step of the allocation loop leaves every entry of every node's
\* allocation where it is and adds at most one entry, at the end: the sites
\* (and their fractions) stay in the order in which they were allocated.
C19_AppendOnly ==
    [][\A p \in 1..Len(nodes) :
          /\ IsPrefix(nodes[p].site_id, nodes'[p].site_id)
          /\ IsPrefix(nodes[p].site_fracs, nodes'[p].site_fracs)
          /\ Len(nodes'[p].site_id) <= Len(nodes[p].site_id) + 1]_vars

\* a result where a node's second site has a lower id than its first
C19_Witness ==
    /\ Returned
    /\ \E p \in 1..Len(nodes) :
         /\ Len(nodes[p].site_id) = 2
         /\ nodes[p].site_id[1] > nodes[p].site_id[2]


(***************************************************************************)
(* Weather allocation: queue.nearest_met_nodes, and get_met_nodes of the   *)
(* older resource package.                                                 *)
(*                                                                         *)
(* A k-d tree built from the same points answers the same query the same   *)
(* way every time, but which of several equidistant sites it answers is    *)
(* not specified.  tieOrder ranks the catalog positions; of the sites at   *)
(* minimum distance a query answers the one of lowest rank.  Init draws    *)
(* every ranking.                                                          *)
(***************************************************************************)
MetNodeRows == [id : 1..NumNodes, lat : Coords, lon : Coords]

\* WeatherNodeCollection.node_data: [node_id(index), latitude, longitude]
MetNodeLists ==
    {l \in UNION {[1..n -> MetNodeRows] : n \in 1..NumNodes} :
        \A i, j \in 1..Len(l) : i # j => l[i].id # l[j].id}

\* the capacity column plays no part in the weather allocation
MetCatalogs == {c \in Catalogs : \A i \in 1..Len(c) : c[i].capacity = 1}

Rankings(n) == {r \in [1..n -> 1..n] : \A i, j \in 1..n : i # j => r[i] # r[j]}

\* tree.query(x, k=1) on the tree of catalog positions ri, under a ranking:
\* for each node left, its position in the tree (1-based); an empty tree
\* answers position n, one past the end
TreeQuery(cat, nl, ri, ni, order) ==
    [k \in 1..Len(ni) |->
        IF Len(ri) = 0 THEN 1
        ELSE CHOOSE i \in NearestSet(cat, ri, nl[ni[k]]) :
                \A j \in NearestSet(cat, ri, nl[ni[k]]) : order[ri[i]] <= order[ri[j]]]

\* lines 149-150: nodes['site_id'] takes the second value of tree.query, the
\* 0-based position of the site in resource_meta
MetSiteValue(cat, i) == i - 1

\* nearest_met_nodes: node id -> the value stored in column site_id
NearestMetNodes(cat, nl, order) ==
    LET all == [p \in 1..Len(cat) |-> p]
        every == [p \in 1..Len(nl) |-> p]
        q == TreeQuery(cat, nl, all, every, order)
    IN  Result([id \in {nl[p].id : p \in 1..Len(nl)} |->
                  MetSiteValue(cat, q[CHOOSE p \in 1..Len(nl) : nl[p].id = id])])

RECURSIVE OldApplyPairs(_, _, _, _, _)
\* get_met_nodes lines 157-169: the for loop over node_pairs.  st is
\* [avail, ids, raised]; ids[p] = -1 while node p is empty.
\* r_nodes.iloc[r_i] reads the row at POSITION r_i, where r_i is the index
\* label r_index[i]; past the end it raises IndexError, as r_index[i] does.
OldApplyPairs(cat, ri, ni, pairs, st) ==
    IF pairs = <<>> \/ st.raised THEN st
    ELSE LET i == Head(pairs)[1]
             n == Head(pairs)[2]
         IN  IF i > Len(ri) THEN [st EXCEPT !.raised = TRUE]
             ELSE LET r_i == cat[ri[i]].id
                  IN  IF r_i >= Len(cat) THEN [st EXCEPT !.raised = TRUE]
                      ELSE OldApplyPairs(cat, ri, ni, Tail(pairs),
                             [avail |-> st.avail \ {r_i + 1},
                              ids |-> [st.ids EXCEPT ![ni[n]] = cat[r_i + 1].id],
                              raised |-> FALSE])

RECURSIVE OldLoop(_, _, _, _)
\* get_met_nodes lines 137-174: the while loop; each site serves one node
OldLoop(cat, nl, order, st) ==
    LET ri == Ascending(st.avail)
        ni == Ascending({p \in 1..Len(nl) : st.ids[p] = -1})
        q == TreeQuery(cat, nl, ri, ni, order)
        pairs == IF Len(ni) = 0 THEN <<>> ELSE GroupPairs(cat, nl, ri, ni, q, 1)
        after == OldApplyPairs(cat, ri, ni, pairs, st)
    IN  IF after.raised THEN after
        ELSE IF \A p \in 1..Len(nl) : after.ids[p] # -1 THEN after
        ELSE OldLoop(cat, nl, order, after)

\* get_met_nodes: node id -> the value stored in column id, or raised
GetMetNodes(cat, nl, order) ==
    LET final == OldLoop(cat, nl, order,
                         [avail |-> 1..Len(cat), ids |-> [p \in 1..Len(nl) |-> -1],
                          raised |-> FALSE])
    IN  IF final.raised THEN Raised
        ELSE Result([id \in {nl[p].id : p \in 1..Len(nl)} |->
                       final.ids[CHOOSE p \in 1..Len(nl) : nl[p].id = id]])

InitMet ==
    /\ catalog \in MetCatalogs
    /\ nodeList \in MetNodeLists
    /\ tieOrder \in Rankings(Len(catalog))
    /\ met_nodes = NoResult
    /\ met_prev = NoResult
    /\ old_nodes = NoResult
    /\ old_prev = NoResult
    /\ CacheUnused
    /\ r_nodes = <<>>
    /\ nodes = <<>>
    /\ r_index = <<>>
    /\ n_index = <<>>
    /\ node_pairs = <<>>
    /\ pc = "idle"
    /\ iters = 0
    /\ impl = "queue"

\* a call of nearest_met_nodes on the current node list
CallNearestMetNodes ==
    /\ met_prev' = met_nodes
    /\ met_nodes' = NearestMetNodes(catalog, nodeList, tieOrder)
    /\ UNCHANGED <<allocVars, tieOrder, old_nodes, old_prev, cacheVars, storeVars, resolveVars>>

\* a call of get_met_nodes on the current node list
CallGetMetNodes ==
    /\ old_prev' = old_nodes
    /\ old_nodes' = GetMetNodes(catalog, nodeList, tieOrder)
    /\ UNCHANGED <<allocVars, tieOrder, met_nodes, met_prev, cacheVars, storeVars, resolveVars>>

\* the caller passes the same nodes in another order
PermuteNodes ==
    /\ \E i, j \in 1..Len(nodeList) :
         /\ i < j
         /\ nodeList' = [nodeList EXCEPT ![i] = nodeList[j], ![j] = nodeList[i]]
    /\ UNCHANGED <<catalog, r_nodes, nodes, r_index, n_index, node_pairs, pc, iters, impl, metVars, cacheVars, storeVars, resolveVars>>

NextMet == CallNearestMetNodes \/ CallGetMetNodes \/ PermuteNodes

SpecMet == InitMet /\ [][NextMet]_vars

(***************************************************************************)
(* Properties of the weather allocation                                    *)
(***************************************************************************)
\* ids of the catalog sites at minimum planar distance from a node row
NearestSiteIds(nd) ==
    {catalog[i].id : i \in NearestSet(catalog, [p \in 1..Len(catalog) |-> p], nd)}

NodeIds == {nodeList[p].id : p \in 1..Len(nodeList)}
NodeRow(id) == nodeList[CHOOSE p \in 1..Len(nodeList) : nodeList[p].id = id]

\* C4: nearest_met_nodes gives every node exactly one value, and that value
\* is the id of a catalog site at minimum planar distance from the node.
C4_NearestSiteId ==
    met_nodes.called =>
        /\ ~met_nodes.raised
        /\ DOMAIN met_nodes.site_id = NodeIds
        /\ \A id \in NodeIds : met_nodes.site_id[id] \in NearestSiteIds(NodeRow(id))

\* C4 restricted to catalogs whose ids are the positions 0..N-1
C4_NearestSiteIdPositional ==
    (met_nodes.called /\ \A p \in 1..Len(catalog) : catalog[p].id = p - 1) =>
        /\ ~met_nodes.raised
        /\ DOMAIN met_nodes.site_id = NodeIds
        /\ \A id \in NodeIds : met_nodes.site_id[id] \in NearestSiteIds(NodeRow(id))

\* C20: when two or more sites are at the same minimum distance from a node,
\* nearest_met_nodes resolves the node to the one with the lowest site id.
C20_TieLowestId ==
    met_nodes.called =>
        /\ ~met_nodes.raised
        /\ \A id \in NodeIds :
              Cardinality(NearestSiteIds(NodeRow(id))) >= 2 =>
                 /\ met_nodes.site_id[id] \in NearestSiteIds(NodeRow(id))
                 /\ \A other \in NearestSiteIds(NodeRow(id)) :
                       met_nodes.site_id[id] <= other

\* with site ids that are the positions 0..N-1, a node with several nearest
\* sites resolves to one of them
C20_TieOneOfNearest ==
    (met_nodes.called /\ \A p \in 1..Len(catalog) : catalog[p].id = p - 1) =>
        \A id \in NodeIds :
            Cardinality(NearestSiteIds(NodeRow(id))) >= 2 =>
                met_nodes.site_id[id] \in NearestSiteIds(NodeRow(id))

\* C5: two calls on the same catalog, with the nodes in the same or another
\* order, resolve each node id to the same site; for nearest_met_nodes and
\* for get_met_nodes.
C5_OrderIndependent ==
    /\ (met_prev.called /\ met_nodes.called) => met_prev = met_nodes
    /\ (old_prev.called /\ old_nodes.called) => old_prev = old_nodes

\* C5 for nearest_met_nodes alone
C5_OrderIndependentNearest ==
    (met_prev.called /\ met_nodes.called) => met_prev = met_nodes


(***************************************************************************)
(* The local cache and the downloads: InternalDataStore, ExternalDataStore *)
(* .cache_resource, Peregrine.download and .download_resource_data         *)
(* (src/R2PD/datastore.py; queue.py holds the same functions in an older   *)
(* form).                                                                  *)
(***************************************************************************)
MaxSite == 1
MaxCores == 2
MaxSizeMB == 11

NoSize == -1       \* _size is None
Sequential == 0    \* cores is None

Datasets == {"wind", "solar"}
Sites == 0..MaxSite

\* Average file sizes in MB
WIND_FILE_SIZES == [met |-> 14, power |-> 5, fcst |-> 2]
SOLAR_FILE_SIZES == [met |-> 10, irradiance |-> 20, power |-> 1, fcst |-> 1]

\* the columns initialize_cache_metas writes to {dataset}_cache.csv
Columns(dataset) ==
    IF dataset = "wind" THEN {"met", "power", "fcst", "fcst-prob"}
    ELSE {"met", "irradiance", "power", "fcst", "fcst-prob"}

\* the file '{d}_{r}_{s}.hdf5'
File(d, r, s) == [dataset |-> d, resource |-> r, site |-> s]

\* name.split('_'): the resource and the site id of a file name; the first
\* part of the name is dropped
ParseName(f) == [resource |-> f.resource, site_id |-> f.site]

\* the sub_directory column of the site meta, here one directory per site
SubDirectory(site) == site

\* size on disk of a cached file, in MB: the average of its kind
FileMB(f) ==
    IF f.dataset = "wind" THEN WIND_FILE_SIZES[f.resource]
    ELSE SOLAR_FILE_SIZES[f.resource]

RECURSIVE SumMB(_)
\* the bytes of the .hdf5 files under ROOT_PATH, in MB, added exactly
SumMB(fs) ==
    IF fs = {} THEN 0
    ELSE LET f == CHOOSE x \in fs : TRUE IN FileMB(f) + SumMB(fs \ {f})

(***************************************************************************)
(* Python floats.  The sizes the budget check compares are floats in GB.   *)
(* A float is the number (-1)^neg * m / 2^e with m a natural number of at  *)
(* most MantissaBits bits, written as its sequence of bits, lowest bit     *)
(* first.  An operation gives the exact result rounded to the nearest      *)
(* float, ties to the even mantissa (IEEE 754 binary64).                   *)
(***************************************************************************)
MantissaBits == 53

Zero == [neg |-> FALSE, m |-> <<>>, e |-> 0]

\* the bits of the natural number n < 2^30
Bits(n) == [i \in 1..30 |-> (n \div 2^(i - 1)) % 2]

\* the number of bits of x, leading zeros not counted
BitLen(x) ==
    IF \A i \in 1..Len(x) : x[i] = 0 THEN 0
    ELSE CHOOSE k \in 1..Len(x) : x[k] = 1 /\ \A j \in (k + 1)..Len(x) : x[j] = 0

IsZero(x) == BitLen(x) = 0

Bit(x, i) == IF i \in 1..Len(x) THEN x[i] ELSE 0

\* x * 2^k
ShiftLeft(x, k) == [i \in 1..(Len(x) + k) |-> IF i <= k THEN 0 ELSE x[i - k]]

RECURSIVE MulSmall(_, _, _)
\* x * n + carry for a natural number n < 2^29
MulSmall(x, n, carry) ==
    IF x = <<>> THEN Bits(carry)
    ELSE LET t == Head(x) * n + carry
         IN  <<t % 2>> \o MulSmall(Tail(x), n, t \div 2)

RECURSIVE AddBits(_, _, _, _)
\* x + y + carry, from bit i on
AddBits(x, y, i, carry) ==
    IF i > Len(x) /\ i > Len(y) THEN <<carry>>
    ELSE LET t == Bit(x, i) + Bit(y, i) + carry
         IN  <<t % 2>> \o AddBits(x, y, i + 1, t \div 2)

RECURSIVE SubBits(_, _, _, _)
\* x - y - borrow for x >= y, from bit i on
SubBits(x, y, i, borrow) ==
    IF i > Len(x) THEN <<>>
    ELSE LET t == Bit(x, i) - Bit(y, i) - borrow
         IN  <<t % 2>> \o SubBits(x, y, i + 1, IF t < 0 THEN 1 ELSE 0)

\* x < y
LessBits(x, y) ==
    \E i \in 1..Len(y) :
        /\ Bit(x, i) < y[i]
        /\ \A j \in (i + 1)..(IF Len(x) > Len(y) THEN Len(x) ELSE Len(y)) :
              Bit(x, j) = Bit(y, j)

\* the float nearest to (-1)^neg * x / 2^e
Fl(neg, x, e) ==
    LET s == BitLen(x) - MantissaBits
    IN  IF IsZero(x) THEN Zero
        ELSE IF s <= 0 THEN [neg |-> neg, m |-> x, e |-> e]
        ELSE LET q == SubSeq(x, s + 1, BitLen(x))
                 up == /\ x[s] = 1
                       /\ \/ q[1] = 1
                          \/ \E i \in 1..(s - 1) : x[i] = 1
             IN  [neg |-> neg,
                  m |-> IF up THEN AddBits(q, <<>>, 1, 1) ELSE q,
                  e |-> e - s]

RECURSIVE LongDiv(_, _, _, _)
\* i more bits of rem / b put below the bits m: the mantissa and the remainder
LongDiv(rem, b, m, i) ==
    IF i = 0 THEN [m |-> m, rem |-> rem]
    ELSE IF 2 * rem >= b THEN LongDiv(2 * rem - b, b, <<1>> \o m, i - 1)
         ELSE LongDiv(2 * rem, b, <<0>> \o m, i - 1)

\* a / b for integers 0 <= a < b <= 10^9: the float nearest to the quotient
FlDiv(a, b) ==
    IF a = 0 THEN Zero
    ELSE LET k == CHOOSE j \in 1..30 : a * 2^j >= b /\ a * 2^(j - 1) < b
             d == LongDiv(a * 2^(k - 1), b, <<>>, MantissaBits)
             up == 2 * d.rem > b \/ (2 * d.rem = b /\ d.m[1] = 1)
         IN  [neg |-> FALSE,
              m |-> IF up THEN AddBits(d.m, <<>>, 1, 1) ELSE d.m,
              e |-> MantissaBits + k - 1]

\* x + y
FlAdd(x, y) ==
    IF IsZero(x.m) THEN y
    ELSE IF IsZero(y.m) THEN x
    ELSE LET e == IF x.e > y.e THEN x.e ELSE y.e
             a == ShiftLeft(x.m, e - x.e)
             b == ShiftLeft(y.m, e - y.e)
         IN  IF x.neg = y.neg THEN Fl(x.neg, AddBits(a, b, 1, 0), e)
             ELSE IF LessBits(a, b) THEN Fl(y.neg, SubBits(b, a, 1, 0), e)
             ELSE Fl(x.neg, SubBits(a, b, 1, 0), e)

\* x - y
FlSub(x, y) == FlAdd(x, [y EXCEPT !.neg = ~y.neg])

\* x < y
FlLess(x, y) ==
    IF IsZero(x.m) THEN ~IsZero(y.m) /\ ~y.neg
    ELSE IF IsZero(y.m) THEN x.neg
    ELSE IF x.neg # y.neg THEN x.neg
    ELSE LET e == IF x.e > y.e THEN x.e ELSE y.e
             a == ShiftLeft(x.m, e - x.e)
             b == ShiftLeft(y.m, e - y.e)
         IN  IF x.neg THEN LessBits(b, a) ELSE LessBits(a, b)

\* the float 10**-9 of line 569
Giga == FlDiv(1, 10^9)

\* a size of mb MB written in GB, as the float data_size / 1000 of line 407
\* and the float of the argument size
GB(mb) == FlDiv(mb, 1000)

\* line 569: os.path.getsize(file_name) * 10**-9, for FileMB(f) * 10^6 bytes
FileGB(f) == Fl(FALSE, MulSmall(Giga.m, FileMB(f) * 10^6, 0), Giga.e)

RECURSIVE SumGB(_, _)
\* lines 565-569: repo_size += ... for every file of the walk
SumGB(fs, repo_size) ==
    IF fs = {} THEN repo_size
    ELSE LET f == CHOOSE x \in fs : TRUE
         IN  SumGB(fs \ {f}, FlAdd(repo_size, FileGB(f)))

\* InternalDataStore.cache_size[0]: the .hdf5 files under ROOT_PATH, in GB
CacheSize(d) == SumGB(d, Zero)

\* lines 386-405: the estimate of the download, in MB
DataSize(dataset, resource_type, forecasts, n) ==
    IF dataset = "wind"
    THEN IF resource_type = "power"
         THEN n * WIND_FILE_SIZES["power"]
                + (IF forecasts THEN n * WIND_FILE_SIZES["fcst"] ELSE 0)
         ELSE n * WIND_FILE_SIZES["met"]
    ELSE IF resource_type = "power"
         THEN n * SOLAR_FILE_SIZES["power"]
                + (IF forecasts THEN n * SOLAR_FILE_SIZES["fcst"] ELSE 0)
         ELSE n * SOLAR_FILE_SIZES["met"] + n * SOLAR_FILE_SIZES["irradiance"]

\* lines 409-412: the download is refused; size is the maximum in MB or
\* NoSize, cache_size and data_size are floats in GB
NotEnoughSpace(size, cache_size, data_size) ==
    /\ size # NoSize
    /\ FlLess(FlSub(GB(size), cache_size), data_size)

RECURSIVE BuildFiles(_, _, _, _)
\* lines 421-447: the list files
BuildFiles(site_ids, dataset, resource_type, forecasts) ==
    IF site_ids = <<>> THEN <<>>
    ELSE LET site == Head(site_ids)
         IN  <<File(dataset, resource_type, site)>>
             \o (IF resource_type = "power" /\ forecasts
                 THEN <<File(dataset, "fcst", site)>> ELSE <<>>)
             \o (IF dataset = "solar" /\ resource_type = "met"
                 THEN <<File("solar", "irradiance", site)>> ELSE <<>>)
             \o BuildFiles(Tail(site_ids), dataset, resource_type, forecasts)

RECURSIVE SortIndex(_)
\* cache_meta.sort_index(): rows in ascending site_id, equal ids in file order
SortIndex(rows) ==
    IF rows = <<>> THEN <<>>
    ELSE LET m == CHOOSE i \in 1..Len(rows) :
                    /\ \A j \in 1..Len(rows) : rows[i].site_id <= rows[j].site_id
                    /\ \A j \in 1..(i - 1) : rows[j].site_id # rows[i].site_id
         IN  <<rows[m]>>
             \o SortIndex([k \in 1..(Len(rows) - 1) |->
                             IF k < m THEN rows[k] ELSE rows[k + 1]])

\* the row of the site with every column set True
SetFlagWholeRow(dataset, rows, resource, site_id) ==
    LET have == \E i \in 1..Len(rows) : rows[i].site_id = site_id
        all == IF have THEN rows
               ELSE Append(rows, [site_id |-> site_id,
                                  flags |-> [c \in Columns(dataset) |-> FALSE]])
    IN  [i \in 1..Len(all) |->
            IF all[i].site_id = site_id
            THEN [all[i] EXCEPT !.flags = [c \in Columns(dataset) |-> TRUE]]
            ELSE all[i]]

\* lines 686-689: the row of the site, added all False when it is missing,
\* with the column of the resource set True
SetFlag(dataset, rows, resource, site_id) ==
    LET have == \E i \in 1..Len(rows) : rows[i].site_id = site_id
        all == IF have THEN rows
               ELSE Append(rows, [site_id |-> site_id,
                                  flags |-> [c \in Columns(dataset) |-> FALSE]])
    IN  [i \in 1..Len(all) |->
            IF all[i].site_id = site_id
            THEN [all[i] EXCEPT !.flags[resource] = TRUE]
            ELSE all[i]]

\* cache_site writing the rows back without sorting them
CacheSiteUnsorted(dataset, rows, site_file) ==
    SetFlag(dataset, rows, ParseName(site_file).resource, ParseName(site_file).site_id)

\* cache_site adding a row for the site whether or not it has one
CacheSiteAppend(dataset, rows, site_file) ==
    SortIndex(Append(rows,
        [site_id |-> ParseName(site_file).site_id,
         flags |-> [c \in Columns(dataset) |->
                       c = ParseName(site_file).resource]]))

\* cache_site, lines 679-692, from the rows read to the rows written
CacheSite(dataset, rows, site_file) ==
    SortIndex(SetFlag(dataset, rows, ParseName(site_file).resource,
                      ParseName(site_file).site_id))

\* refresh_cache_meta building the rows from the files found alone
RefreshRowsRebuild(dataset, rows, fs) ==
    SortIndex([i \in 1..Cardinality({f.site : f \in fs}) |->
        LET site == CHOOSE x \in {f.site : f \in fs} :
                        Cardinality({y \in {f.site : f \in fs} : y < x}) = i - 1
        IN  [site_id |-> site,
             flags |-> [c \in Columns(dataset) |->
                           \E f \in fs : f.site = site /\ f.resource = c]]])

RECURSIVE RefreshRows(_, _, _)
\* refresh_cache_meta, lines 637-657: every .hdf5 file in the root directory
\* of the dataset is entered in the rows read
RefreshRows(dataset, rows, fs) ==
    IF fs = {} THEN SortIndex(rows)
    ELSE LET f == CHOOSE x \in fs : TRUE
         IN  RefreshRows(dataset,
                         SetFlag(dataset, rows, ParseName(f).resource,
                                 ParseName(f).site_id),
                         fs \ {f})

\* the .hdf5 files os.listdir finds in the root directory of the dataset
RootFiles(d, dataset) == {f \in d : f.dataset = dataset}

\* InternalDataStore.__init__ on a cache directory without index files
NewCacheMeta(d) ==
    [dataset \in Datasets |-> RefreshRows(dataset, <<>>, RootFiles(d, dataset))]

\* cache_meta.loc[site_id, resource_type] of the index file
Present(meta, dataset, site_id, resource) ==
    \E i \in 1..Len(meta[dataset]) :
        /\ meta[dataset][i].site_id = site_id
        /\ meta[dataset][i].flags[resource]

\* check_cache, lines 716-738: the answer for the index file and directory as
\* they are; resource_type None asks for any resource of the site
CheckCache(meta, d, dataset, site_id, resource_type) ==
    LET rows == RefreshRows(dataset, meta[dataset], RootFiles(d, dataset))
    IN  \E i \in 1..Len(rows) :
           /\ rows[i].site_id = site_id
           /\ resource_type # None => rows[i].flags[resource_type]

\* FileLock admits every caller
LockFreeAlways(holder) == TRUE

\* filelock.FileLock(lock_file) can be entered
LockFree(holder) == holder = 0

NewTask == [st |-> "pending", ok |-> TRUE, rsync |-> FALSE, read |-> <<>>]

Running(ts) == {t \in 1..Len(ts) : ts[t].st \notin {"pending", "done"}}
Pending(ts) == {t \in 1..Len(ts) : ts[t].st = "pending"}
AllDone(ts) == \A t \in 1..Len(ts) : ts[t].st = "done"

\* files the cache may hold when the store is opened
InitFiles == {File(d, "power", 0) : d \in Datasets}

Requests ==
    [site_ids : UNION {[1..n -> Sites] : n \in 1..(MaxSite + 1)},
     dataset : Datasets,
     resource_type : {"power", "met"},
     forecasts : BOOLEAN,
     cores : {Sequential} \cup 1..MaxCores]

InitCache ==
    /\ size_cfg \in {NoSize} \cup 0..MaxSizeMB
    /\ disk \in SUBSET InitFiles
    /\ dirs = {}
    /\ cache_meta = NewCacheMeta(disk)
    /\ lock = [dataset \in Datasets |-> 0]
    /\ dpc = "idle"
    /\ req = <<>>
    /\ files = <<>>
    /\ tasks = <<>>
    /\ catalog = <<>>
    /\ nodeList = <<>>
    /\ r_nodes = <<>>
    /\ nodes = <<>>
    /\ r_index = <<>>
    /\ n_index = <<>>
    /\ node_pairs = <<>>
    /\ pc = "idle"
    /\ iters = 0
    /\ impl = "queue"
    /\ tieOrder = <<>>
    /\ met_nodes = NoResult
    /\ met_prev = NoResult
    /\ old_nodes = NoResult
    /\ old_prev = NoResult
    /\ last_call = NoCall
    /\ store_calls = 0
    /\ entry = "method"
    /\ sub = {}
    /\ gpc = "idle"
    /\ meta0 = <<>>
    /\ opened = 1

\* the calls of download_resource_data: any when the method is called, and
\* from get_resource_data (queue.py lines 311-322) the site ids of generator
\* nodes through np.unique, which sorts them and drops repeated ids, those of
\* weather nodes as they are, one per node
CallMade(e, r) ==
    (e = "resolve" /\ r.resource_type = "power") =>
        \A i \in 1..(Len(r.site_ids) - 1) : r.site_ids[i] < r.site_ids[i + 1]

\* the sub directories of the sites of a call
SubDirs(r) == {<<r.dataset, SubDirectory(r.site_ids[i])>> : i \in 1..Len(r.site_ids)}

\* os.makedirs of the sub directories ahead of the size check
DirsAfterEager(ds, r, refused) == ds \cup SubDirs(r)

\* lines 409-433: the sub directories after the call; os.makedirs comes
\* after the size check
DirsAfter(ds, r, refused) == IF refused THEN ds ELSE ds \cup SubDirs(r)

\* the values download_resource_data computes before the size check, and
\* the sizes they stand for in MB: the estimate and the bytes in the cache
Call(r) ==
    [site_ids |-> r.site_ids, dataset |-> r.dataset,
     resource_type |-> r.resource_type, forecasts |-> r.forecasts,
     cores |-> r.cores,
     data_size |-> GB(DataSize(r.dataset, r.resource_type, r.forecasts,
                              Len(r.site_ids))),
     cache_size |-> CacheSize(disk),
     estimate |-> DataSize(r.dataset, r.resource_type, r.forecasts, Len(r.site_ids)),
     used |-> SumMB(disk)]

\* lines 386-419: the call is refused, RuntimeError (TypeError from the
\* message of line 416) leaves download_resource_data
DownloadRefused ==
    /\ dpc = "idle"
    /\ \E r \in Requests :
         /\ (r.resource_type = "met" => ~r.forecasts)
         /\ CallMade(entry, r)
         /\ NotEnoughSpace(size_cfg, Call(r).cache_size, Call(r).data_size)
         /\ req' = Call(r)
         /\ dirs' = DirsAfter(dirs, r, TRUE)
    /\ dpc' = "refused"
    /\ meta0' = cache_meta
    /\ UNCHANGED <<allocVars, metVars, storeVars, entry, sub, gpc, opened, size_cfg, disk, cache_meta, lock, files, tasks>>

\* lines 386-447: the call passes the size check, makes the sub directories
\* and builds the list of files
DownloadAccepted ==
    /\ dpc = "idle"
    /\ \E r \in Requests :
         /\ (r.resource_type = "met" => ~r.forecasts)
         /\ CallMade(entry, r)
         /\ ~NotEnoughSpace(size_cfg, Call(r).cache_size, Call(r).data_size)
         /\ req' = Call(r)
         /\ dirs' = DirsAfter(dirs, r, FALSE)
         /\ files' = BuildFiles(r.site_ids, r.dataset, r.resource_type, r.forecasts)
         /\ tasks' = [t \in 1..Len(files') |-> NewTask]
    /\ dpc' = "running"
    /\ meta0' = cache_meta
    /\ UNCHANGED <<allocVars, metVars, storeVars, entry, sub, gpc, opened, size_cfg, disk, cache_meta, lock>>

\* where cache_resource puts the file: datastore.py line 230 joins the root
\* directory and the base name of site_file, queue.py line 179 joins the root
\* directory and site_file, which begins with the sub directory
InSubDirectory(e) == e = "resolve"

\* a call can start whenever it is its turn
WorkerFreeAlways(cores, ts) == TRUE

\* lines 449-460: with cores None the for loop makes the next call when the
\* call before it has ended; EXECUTOR(max_workers=cores) runs a submitted
\* call when one of its cores workers is idle
WorkerFree(cores, ts) ==
    IF cores = Sequential THEN Running(ts) = {}
    ELSE Cardinality(Running(ts)) < cores

\* the next cache_resource call starts: in list order, one at a time when
\* cores is None, else while a worker of the pool is free.  Peregrine.download
\* lines 310-315: nothing is transferred for a file that is on disk.
TaskStart(t) ==
    /\ dpc = "running"
    /\ tasks[t].st = "pending"
    /\ \A u \in Pending(tasks) : t <= u
    /\ WorkerFree(req.cores, tasks)
    /\ tasks' = [tasks EXCEPT ![t] =
                   IF files[t] \in disk
                   THEN [@ EXCEPT !.st = "lockwait"]
                   ELSE [@ EXCEPT !.st = "transfer", !.rsync = TRUE]]
    /\ UNCHANGED <<allocVars, metVars, storeVars, resolveVars, size_cfg, disk, dirs, cache_meta, lock, dpc, req, files>>

\* lines 316-329: rsync ends with exit status 0 and the file is on disk
TransferOk(t) ==
    /\ dpc = "running"
    /\ tasks[t].st = "transfer"
    /\ disk' = disk \cup {files[t]}
    /\ sub' = IF InSubDirectory(entry) THEN sub \cup {files[t]} ELSE sub
    /\ tasks' = [tasks EXCEPT ![t].st = "lockwait"]
    /\ UNCHANGED <<allocVars, metVars, storeVars, entry, gpc, meta0, opened, size_cfg, dirs, cache_meta, lock, dpc, req, files>>

\* lines 321-331: the transfer times out or rsync fails; download raises
TransferFail(t) ==
    /\ dpc = "running"
    /\ tasks[t].st = "transfer"
    /\ tasks' = [tasks EXCEPT ![t].st = "lockwait", ![t].ok = FALSE]
    /\ UNCHANGED <<allocVars, metVars, storeVars, resolveVars, size_cfg, disk, dirs, cache_meta, lock, dpc, req, files>>

\* cache_resource lines 236-237 and cache_site line 679: the finally clause
\* runs whether or not download raised; the task enters the lock and
\* cache_site reads the index file
TaskLock(t) ==
    /\ dpc = "running"
    /\ tasks[t].st = "lockwait"
    /\ LockFree(lock[req.dataset])
    /\ lock' = [lock EXCEPT ![req.dataset] = t]
    /\ tasks' = [tasks EXCEPT ![t].st = "locked", ![t].read = cache_meta[req.dataset]]
    /\ UNCHANGED <<allocVars, metVars, storeVars, resolveVars, size_cfg, disk, dirs, cache_meta, dpc, req, files>>

\* cache_site lines 682-692 and the end of cache_resource: the index file is
\* written, the lock released, and the exception of download, if any, leaves
\* cache_resource.  With cores None it leaves download_resource_data as well
\* (line 451); a pool keeps it in the future nobody reads (line 460).
TaskWrite(t) ==
    /\ dpc = "running"
    /\ tasks[t].st = "locked"
    /\ cache_meta' = [cache_meta EXCEPT ![req.dataset] =
                        CacheSite(req.dataset, tasks[t].read, files[t])]
    /\ lock' = [lock EXCEPT ![req.dataset] = 0]
    /\ tasks' = [tasks EXCEPT ![t].st = "done", ![t].read = <<>>]
    /\ dpc' = IF req.cores = Sequential /\ ~tasks[t].ok THEN "raised"
              ELSE IF AllDone(tasks') THEN "returned"
              ELSE "running"
    /\ UNCHANGED <<allocVars, metVars, storeVars, resolveVars, size_cfg, disk, dirs, req, files>>

NextCache ==
    \/ DownloadRefused
    \/ DownloadAccepted
    \/ \E t \in 1..Len(files) :
         TaskStart(t) \/ TransferOk(t) \/ TransferFail(t) \/ TaskLock(t) \/ TaskWrite(t)

SpecCache == InitCache /\ [][NextCache]_vars


(***************************************************************************)
(* Properties of the downloads                                             *)
(***************************************************************************)
Checked == dpc \in {"refused", "running", "returned", "raised"}

\* C6: the call is refused if and only if a maximum cache size is set and
\* used size + estimated download size > maximum size (so never without a
\* maximum, and not when used + estimate = maximum).
C6_RefusedIffOverBudget ==
    Checked =>
        (dpc = "refused"
            <=> (size_cfg # NoSize /\ req.used + req.estimate > size_cfg))

\* the call is refused when used + estimate > maximum, and only when a
\* maximum is set and used + estimate >= maximum
C6_RefusedAwayFromEqual ==
    Checked =>
        /\ (size_cfg # NoSize /\ req.used + req.estimate > size_cfg)
              => dpc = "refused"
        /\ dpc = "refused"
              => (size_cfg # NoSize /\ req.used + req.estimate >= size_cfg)

\* C7: a step that refuses the call, and every step after it, launches no
\* cache_resource task and leaves the cache files, the sub directories and
\* the index files as they are.
C7_RefusedNoEffect ==
    [][(dpc' = "refused" \/ dpc = "refused") =>
          /\ tasks' = <<>>
          /\ files' = <<>>
          /\ disk' = disk
          /\ dirs' = dirs
          /\ cache_meta' = cache_meta]_vars

\* a refused call on a cache that holds files
C7_Witness == dpc = "refused" /\ disk # {} /\ Len(req.site_ids) = 2

\* C8: an entry of the index file is marked present only if its file is on
\* disk (it was downloaded, or was there already), and a task whose download
\* raised leaves its entry unmarked.
C8_PresentOnlyAfterDownload ==
    /\ \A d \in Datasets : \A s \in Sites : \A k \in Columns(d) :
          Present(cache_meta, d, s, k) => File(d, k, s) \in disk
    /\ \A t \in 1..Len(tasks) :
          (tasks[t].st = "done" /\ ~tasks[t].ok)
             => ~Present(cache_meta, req.dataset, files[t].site, files[t].resource)

\* the list files of the call made, also for a call that was refused
RequestedFiles == BuildFiles(req.site_ids, req.dataset, req.resource_type, req.forecasts)

\* the sites of the call whose files are not all in the cache
AbsentSites(r, d) ==
    {i \in 1..Len(r.site_ids) :
        \E f \in Range(BuildFiles(<<r.site_ids[i]>>, r.dataset, r.resource_type,
                                  r.forecasts)) : f \notin d}

\* the size check counts the absent sites only, and a call is refused only
\* if a site is absent
OnlyAbsentCounted ==
    (dpc = "idle" /\ dpc' # "idle") =>
        /\ req'.estimate = DataSize(req'.dataset, req'.resource_type, req'.forecasts,
                                    Cardinality(AbsentSites(req', disk)))
        /\ dpc' = "refused" => AbsentSites(req', disk) # {}

\* a cache_resource call starts a transfer only for a file that is not in
\* the cache
OnlyAbsentFetched ==
    \A t \in 1..Len(tasks) :
        (tasks[t].st = "pending" /\ tasks'[t].st # "pending") =>
            (tasks'[t].rsync <=> files[t] \notin disk)

\* C25: a site whose files are in the local cache adds nothing to the
\* estimate that is checked against the budget and gets no transfer, and a
\* call whose sites are all in the cache is not refused.
C25_OnlyAbsentSites == [][OnlyAbsentCounted /\ OnlyAbsentFetched]_vars

\* C25 for the transfers alone
C25_PresentNotFetched == [][OnlyAbsentFetched]_vars

\* C26: with cores = N at most N cache_resource calls are running at any
\* time; with cores None at most one is running, and a call has begun only
\* when every call before it in the list has ended.
C26_BoundedConcurrency ==
    dpc # "idle" =>
        /\ Cardinality(Running(tasks))
              <= (IF req.cores = Sequential THEN 1 ELSE req.cores)
        /\ req.cores = Sequential =>
              \A t, u \in 1..Len(tasks) :
                 (t < u /\ tasks[u].st # "pending") => tasks[t].st = "done"

\* a pool of two workers with both busy and a call still pending
C26_Witness ==
    /\ dpc = "running"
    /\ req.cores = 2
    /\ Cardinality(Running(tasks)) = 2
    /\ Pending(tasks) # {}

\* C10: when all cache_resource tasks of a call have finished, the entry of
\* every one of them is marked present in the index file.
C10_NoLostUpdates ==
    (tasks # <<>> /\ AllDone(tasks)) =>
        \A t \in 1..Len(tasks) :
            Present(cache_meta, req.dataset, files[t].site, files[t].resource)

\* a pool of two workers has finished the tasks of two different sites
C10_Witness ==
    /\ dpc = "returned"
    /\ req.cores = 2
    /\ AllDone(tasks)
    /\ \E t, u \in 1..Len(tasks) : files[t].site # files[u].site

RECURSIVE RegisterAll(_, _, _)
\* lines 449-451: cache_site for the files of the list fs, one after the
\* other in list order, from the rows read
RegisterAll(dataset, rows, fs) ==
    IF fs = <<>> THEN rows
    ELSE RegisterAll(dataset, CacheSite(dataset, rows, Head(fs)), Tail(fs))

\* C11: when all cache_resource tasks of a call have finished, the index
\* files are what registering the files one after the other in list order
\* gives, whatever the order in which the tasks ran and finished.
C11_Convergent ==
    (tasks # <<>> /\ AllDone(tasks)) =>
        cache_meta = [meta0 EXCEPT ![req.dataset] =
                         RegisterAll(req.dataset, meta0[req.dataset], files)]

\* a pool of two workers has finished two tasks that add rows to the index
\* file, the row of the task submitted first sorting after the other
C11_Witness ==
    /\ dpc = "returned"
    /\ req.cores = 2
    /\ Len(files) = 2
    /\ files[1].site > files[2].site
    /\ meta0[req.dataset] = <<>>
    /\ AllDone(tasks)

(***************************************************************************)
(* queue.get_resource_data: the allocation (the sites of the call), the    *)
(* download through the functions of queue.py, then get_resource for every *)
(* site of the allocation.                                                 *)
(***************************************************************************)
MaxOpens == 2

\* the rows cache_site has written for the files fs
RegisteredRows(fs) ==
    [dataset \in Datasets |-> RefreshRows(dataset, <<>>, RootFiles(fs, dataset))]

\* the local cache as earlier get_resource_data calls leave it: the files
\* in their sub directories and registered in the index files
InitResolve ==
    /\ size_cfg \in {NoSize} \cup 0..MaxSizeMB
    /\ disk \in SUBSET InitFiles
    /\ sub = disk
    /\ dirs = {<<f.dataset, SubDirectory(f.site)>> : f \in disk}
    /\ cache_meta = RegisteredRows(disk)
    /\ lock = [dataset \in Datasets |-> 0]
    /\ dpc = "idle"
    /\ req = <<>>
    /\ files = <<>>
    /\ tasks = <<>>
    /\ catalog = <<>>
    /\ nodeList = <<>>
    /\ r_nodes = <<>>
    /\ nodes = <<>>
    /\ r_index = <<>>
    /\ n_index = <<>>
    /\ node_pairs = <<>>
    /\ pc = "idle"
    /\ iters = 0
    /\ impl = "queue"
    /\ tieOrder = <<>>
    /\ met_nodes = NoResult
    /\ met_prev = NoResult
    /\ old_nodes = NoResult
    /\ old_prev = NoResult
    /\ last_call = NoCall
    /\ store_calls = 0
    /\ entry = "resolve"
    /\ gpc = "idle"
    /\ meta0 = <<>>
    /\ opened = 1

\* refresh_cache_meta as check_cache calls it (line 716): the index file of
\* the dataset after the scan of its root directory
Refreshed(meta, d, dataset) ==
    [meta EXCEPT ![dataset] = RefreshRows(dataset, @, RootFiles(d, dataset))]

\* queue.py line 321: the exception of download_resource_data leaves
\* get_resource_data
ResolveRaise ==
    /\ gpc = "idle"
    /\ entry = "resolve"
    /\ dpc \in {"refused", "raised"}
    /\ gpc' = "raised"
    /\ UNCHANGED <<allocVars, metVars, cacheVars, storeVars, entry, sub, meta0, opened>>

\* queue.py lines 324-340: get_resource for every site of the allocation
\* (datastore.py lines 258-271: check_cache without a resource type, then
\* the Resource or RuntimeError), then the return
GetResources ==
    /\ gpc = "idle"
    /\ entry = "resolve"
    /\ dpc = "returned"
    /\ cache_meta' = Refreshed(cache_meta, disk \ sub, req.dataset)
    /\ gpc' = IF \A i \in 1..Len(req.site_ids) :
                    CheckCache(cache_meta, disk \ sub, req.dataset, req.site_ids[i], None)
              THEN "returned" ELSE "raised"
    /\ UNCHANGED <<allocVars, metVars, storeVars, entry, sub, meta0, opened,
                   size_cfg, disk, dirs, lock, dpc, req, files, tasks>>

\* InternalDataStore.__init__, lines 503-506, over the cache directory as it
\* is: initialize_cache_metas writes an empty index file for the datasets in
\* lost, whose index file is missing, then refresh_cache_meta for both
Reopened(meta, d, lost) ==
    [dataset \in Datasets |->
        RefreshRows(dataset, IF dataset \in lost THEN <<>> ELSE meta[dataset],
                    RootFiles(d, dataset))]

\* after get_resource_data has ended a new InternalDataStore is opened over
\* the same directory, with or without the index files still there
Restart ==
    /\ gpc \in {"returned", "raised"}
    /\ opened < MaxOpens
    /\ \E lost \in SUBSET Datasets :
         cache_meta' = Reopened(cache_meta, disk \ sub, lost)
    /\ opened' = opened + 1
    /\ UNCHANGED <<allocVars, metVars, storeVars, entry, sub, gpc, meta0,
                   size_cfg, disk, dirs, lock, dpc, req, files, tasks>>

NextResolve == NextCache \/ ResolveRaise \/ GetResources \/ Restart

SpecResolve == InitResolve /\ [][NextResolve]_vars

\* the tasks whose download raised
FailedTasks == {t \in 1..Len(tasks) : tasks[t].st = "done" /\ ~tasks[t].ok}

\* queue.py line 340: get_resource_data returns (node_collection,
\* nearest_nodes); no fetch error is part of what it returns
ReportedErrors(g) == {}

\* C13: when get_resource_data has ended, every task whose download failed
\* is among the errors it reports, and with failed downloads it has still
\* returned the allocation.
C13_FailuresReported ==
    gpc \in {"returned", "raised"} =>
        /\ FailedTasks \subseteq ReportedErrors(gpc)
        /\ FailedTasks # {} => gpc = "returned"

\* the part of C13 a pool violates: a failed download is reported
C13_NoFailureDropped ==
    gpc = "returned" => FailedTasks \subseteq ReportedErrors(gpc)

\* with no failed download and the call accepted, get_resource_data returns
C13_ReturnsWithoutFailure ==
    (gpc \in {"returned", "raised"} /\ FailedTasks = {} /\ dpc # "refused") =>
        gpc = "returned"

\* the file of the resource type of the call is in the local cache, for the
\* site site_id of the allocation
RequiredPresent(site_id) ==
    /\ Present(cache_meta, req.dataset, site_id, req.resource_type)
    /\ File(req.dataset, req.resource_type, site_id) \in disk

\* C14: when get_resource_data has returned the allocation, the file of the
\* required resource type (power for generator nodes, met for weather nodes)
\* is present in the local cache for every site of the allocation.
C14_RequiredKindPresent ==
    gpc = "returned" =>
        \A i \in 1..Len(req.site_ids) : RequiredPresent(req.site_ids[i])

\* the index files mark the required resource type present at the return
C14_RequiredKindMarked ==
    gpc = "returned" =>
        \A i \in 1..Len(req.site_ids) :
            Present(cache_meta, req.dataset, req.site_ids[i], req.resource_type)

\* C29: in a call made by get_resource_data the list files has no entry
\* twice, and no two cache_resource calls transfer the same file at once.
C29_NoDuplicateFiles ==
    \A t, u \in 1..Len(files) :
        t # u =>
            /\ files[t] # files[u]
            /\ ~(tasks[t].st = "transfer" /\ tasks[u].st = "transfer")

\* C29 for generation nodes
C29_GenerationNoDuplicates ==
    (dpc # "idle" /\ req.resource_type = "power") =>
        \A t, u \in 1..Len(files) : t # u => files[t] # files[u]

\* the tasks that registered their file after its download succeeded (or
\* with the file in the cache already)
RegisteredTasks == {t \in 1..Len(tasks) : tasks[t].st = "done" /\ tasks[t].ok}

\* C16: after a new InternalDataStore was opened over the cache directory,
\* the index files mark present every entry that a task registered after a
\* successful download, also when an index file was missing and was rebuilt
\* from the directory.
C16_PresenceSurvivesRestart ==
    opened > 1 =>
        \A t \in RegisteredTasks :
            Present(cache_meta, req.dataset, files[t].site, files[t].resource)

\* the same as long as the index files are not lost
C16_PresenceSurvivesReopen ==
    [][(opened' > opened /\ cache_meta' = Reopened(cache_meta, disk \ sub, {}))
          => \A t \in RegisteredTasks :
                Present(cache_meta', req.dataset, files[t].site, files[t].resource)]_vars

\* the call of download_resource_data has ended, by return or by exception
CallEnded == dpc \in {"returned", "raised"}

\* the tasks of the sites other than the site of the failed task t have run
OthersDone(t) ==
    \A u \in 1..Len(tasks) :
        files[u].site # files[t].site => tasks[u].st = "done"

\* C12: when the call has ended and the download of one task failed or timed
\* out, the tasks of all other sites of the call have run to completion,
\* with cores None as with a pool.
C12_OtherSitesStillRun ==
    CallEnded =>
        \A t \in 1..Len(tasks) :
            (tasks[t].st = "done" /\ ~tasks[t].ok) => OthersDone(t)

\* the same for the calls that use a pool
C12_OtherSitesStillRunPool ==
    (CallEnded /\ req.cores # Sequential) =>
        \A t \in 1..Len(tasks) :
            (tasks[t].st = "done" /\ ~tasks[t].ok) => OthersDone(t)

(***************************************************************************)
(* The InternalDataStore called directly: cache_data / cache_site, and     *)
(* files arriving in the cache directory.                                  *)
(***************************************************************************)
MaxStoreCalls == 3

StoreFiles == {File(d, r, s) : d \in Datasets, r \in {"power", "met"}, s \in Sites}

InitStore ==
    /\ size_cfg = NoSize
    /\ disk \in SUBSET InitFiles
    /\ dirs = {}
    /\ cache_meta = NewCacheMeta(disk)
    /\ lock = [dataset \in Datasets |-> 0]
    /\ dpc = "idle"
    /\ req = <<>>
    /\ files = <<>>
    /\ tasks = <<>>
    /\ catalog = <<>>
    /\ nodeList = <<>>
    /\ r_nodes = <<>>
    /\ nodes = <<>>
    /\ r_index = <<>>
    /\ n_index = <<>>
    /\ node_pairs = <<>>
    /\ pc = "idle"
    /\ iters = 0
    /\ impl = "queue"
    /\ tieOrder = <<>>
    /\ met_nodes = NoResult
    /\ met_prev = NoResult
    /\ old_nodes = NoResult
    /\ old_prev = NoResult
    /\ last_call = NoCall
    /\ store_calls = 0
    /\ entry = "method"
    /\ sub = {}
    /\ gpc = "idle"
    /\ meta0 = <<>>
    /\ opened = 1

\* cache_data(dataset, [site_file]): cache_site on one file
StoreCacheSite ==
    /\ store_calls < MaxStoreCalls
    /\ \E f \in StoreFiles :
         /\ cache_meta' = [cache_meta EXCEPT ![f.dataset] = CacheSite(f.dataset, @, f)]
         /\ last_call' = [op |-> "cache_site", dataset |-> f.dataset, file |-> f,
                          repeat |-> /\ last_call.op = "cache_site"
                                     /\ last_call.file = f]
    /\ store_calls' = store_calls + 1
    /\ UNCHANGED <<allocVars, metVars, resolveVars, size_cfg, disk, dirs, lock, dpc, req, files, tasks>>

\* ExternalDataStore.download puts a file into the cache directory
StoreDownload ==
    /\ store_calls < MaxStoreCalls
    /\ \E f \in StoreFiles \ disk :
         /\ disk' = disk \cup {f}
         /\ last_call' = [op |-> "download", dataset |-> f.dataset, file |-> f,
                          repeat |-> FALSE]
    /\ store_calls' = store_calls + 1
    /\ UNCHANGED <<allocVars, metVars, resolveVars, size_cfg, dirs, cache_meta, lock, dpc, req, files, tasks>>

\* check_cache(dataset, ...) or refresh_cache_meta(dataset): the index file
\* is read, the files of the root directory are entered, and it is written
StoreCheckCache ==
    /\ store_calls < MaxStoreCalls
    /\ \E dataset \in Datasets, op \in {"check_cache", "refresh_cache_meta"} :
         /\ cache_meta' = Refreshed(cache_meta, disk \ sub, dataset)
         /\ last_call' = [op |-> op, dataset |-> dataset, file |-> <<>>,
                          repeat |-> FALSE]
    /\ store_calls' = store_calls + 1
    /\ UNCHANGED <<allocVars, metVars, resolveVars, size_cfg, disk, dirs, lock, dpc, req, files, tasks>>

NextStore == StoreCacheSite \/ StoreDownload \/ StoreCheckCache

SpecStore == InitStore /\ [][NextStore]_vars

\* the index file of a dataset changes only in a step taken while the lock
\* of the dataset is held
WrittenUnderLock ==
    \A d \in Datasets : cache_meta'[d] # cache_meta[d] => lock[d] # 0

\* the step is a call of check_cache
CheckCacheStep == store_calls' = store_calls + 1 /\ last_call'.op = "check_cache"

\* C24: the index file of a dataset is changed only while the lock of the
\* dataset is held by a registering task, and a check_cache call does not
\* change an index file.
C24_WritesUnderLock ==
    [][WrittenUnderLock /\ (CheckCacheStep => cache_meta' = cache_meta)]_vars

\* C24 for check_cache alone
C24_CheckNeverWrites == [][CheckCacheStep => cache_meta' = cache_meta]_vars

\* C24 for the tasks of download_resource_data: an index file changes only
\* in the step of the task that holds its lock, and one task at a time is
\* between reading and writing it
C24_TasksWriteUnderLock ==
    /\ [](\A t, u \in 1..Len(tasks) :
            (tasks[t].st = "locked" /\ tasks[u].st = "locked") => t = u)
    /\ [][\A d \in Datasets :
            cache_meta'[d] # cache_meta[d] =>
               /\ d = req.dataset
               /\ lock[d] \in 1..Len(tasks)
               /\ tasks[lock[d]].st = "locked"
               /\ tasks'[lock[d]].st = "done"]_vars

\* every presence answer that is true stays true in the step
PresenceKept ==
    \A f \in StoreFiles :
        /\ Present(cache_meta, f.dataset, f.site, f.resource)
              => Present(cache_meta', f.dataset, f.site, f.resource)
        /\ \A k \in {None, f.resource} :
              CheckCache(cache_meta, disk \ sub, f.dataset, f.site, k)
                 => CheckCache(cache_meta', disk' \ sub', f.dataset, f.site, k)

\* C15: no cache_site, check_cache, refresh_cache_meta or download step
\* takes an entry out of the index files or turns a mark back to False.
C15_NoEviction == [][PresenceKept]_vars

\* the index file was refreshed while it marks a file present that is not
\* in the directory
C15_Witness ==
    /\ last_call.op \in {"check_cache", "refresh_cache_meta"}
    /\ \E f \in StoreFiles :
         /\ f.dataset = last_call.dataset
         /\ f \notin disk
         /\ Present(cache_meta, f.dataset, f.site, f.resource)

\* the sites that have a row in the index file of a dataset
RowSites(meta, d) == {meta[d][i].site_id : i \in 1..Len(meta[d])}

\* a cache_site call for file f marks f, gives the site of f a row, and
\* leaves every other mark, every other row and the other index file alone
CacheSiteFrame ==
    (store_calls' = store_calls + 1 /\ last_call'.op = "cache_site") =>
        LET f == last_call'.file
        IN  /\ Present(cache_meta', f.dataset, f.site, f.resource)
            /\ RowSites(cache_meta', f.dataset) = RowSites(cache_meta, f.dataset) \cup {f.site}
            /\ Len(cache_meta'[f.dataset]) = Cardinality(RowSites(cache_meta', f.dataset))
            /\ \A d \in Datasets : d # f.dataset => cache_meta'[d] = cache_meta[d]
            /\ \A site \in Sites : \A k \in Columns(f.dataset) :
                  (site # f.site \/ k # f.resource) =>
                     (Present(cache_meta', f.dataset, site, k)
                        <=> Present(cache_meta, f.dataset, site, k))

\* C30: cache_site for (site s, dataset c, kind k) sets the mark (s, k) of
\* dataset c and nothing else: the marks of the other sites and of the other
\* kinds of s (not present when s had no row) and the index file of the other
\* dataset stay as they were.
C30_RegisterFrame == [][CacheSiteFrame]_vars

\* cache_site has entered a site that had no row, next to the row of another
\* site with a mark, while the other index file has a row as well
C30_Witness ==
    /\ last_call.op = "cache_site"
    /\ Len(cache_meta[last_call.dataset]) = 2
    /\ \E site \in Sites : \E k \in Columns(last_call.dataset) :
          /\ site # last_call.file.site
          /\ Present(cache_meta, last_call.dataset, site, k)
    /\ \A k \in Columns(last_call.dataset) :
          k # last_call.file.resource
             => ~Present(cache_meta, last_call.dataset, last_call.file.site, k)
    /\ \E d \in Datasets : d # last_call.dataset /\ Len(cache_meta[d]) > 0

\* C9: a cache_site call with the arguments of the call made just before it
\* leaves the index files, every check_cache answer and the used size as the
\* first call left them.
C9_RegisterIdempotent ==
    [][(store_calls' = store_calls + 1 /\ last_call'.op = "cache_site"
           /\ last_call'.repeat) =>
          /\ cache_meta' = cache_meta
          /\ CacheSize(disk') = CacheSize(disk)
          /\ \A f \in StoreFiles : \A k \in {None, f.resource} :
                CheckCache(cache_meta', disk', f.dataset, f.site, k)
                   = CheckCache(cache_meta, disk, f.dataset, f.site, k)]_vars

\* cache_site was called twice in a row with the same arguments, for a site
\* that had no row before
C9_Witness ==
    /\ last_call.op = "cache_site"
    /\ last_call.repeat
    /\ last_call.file \notin disk
    /\ Len(cache_meta[last_call.dataset]) = 2

====
